---- MODULE Spec2Model ----
(***************************************************************************)
(* A model of the RAET packet codec of salt/transport/road/raet/raeting.py *)
(* (packPacket / parsePacket and their eight stages).                      *)
(*                                                                         *)
(* Python strings are sequences of one-character strings, so that          *)
(* len, slicing, startswith, partition, replace and the JSON text are      *)
(* computed character by character.  Python values are tagged records      *)
(* (None, int, str, mapping); a dict is a function from its keys.          *)
(***************************************************************************)
EXTENDS Integers, Sequences, FiniteSets, TLC

(***************************************************************************)
(* Python values                                                           *)
(***************************************************************************)
NoneV == [t |-> "none", n |-> 0, s |-> <<>>, m |-> <<>>]
IntV(i) == [t |-> "int", n |-> i, s |-> <<>>, m |-> <<>>]
StrV(cs) == [t |-> "str", n |-> 0, s |-> cs, m |-> <<>>]
\* an ordered mapping: a sequence of <<key, value>> pairs, keys distinct
MapV(ps) == [t |-> "map", n |-> 0, s |-> <<>>, m |-> ps]

\* the text of a diagnostic message, kept as one unit: only whether
\* meta['error'] is empty is ever read
Text(msg) == StrV(<<msg>>)

EmptyStr == StrV(<<>>)

\* Python truth value of a value (bool(x))
Truthy(v) ==
  CASE v.t = "none" -> FALSE
    [] v.t = "int" -> v.n # 0
    [] v.t = "str" -> v.s # <<>>
    [] OTHER -> v.m # <<>>

\* a dict as a function from keys to values
EmptyDict == [k \in {} |-> NoneV]
Has(d, k) == k \in DOMAIN d
Put(d, k, v) == [x \in (DOMAIN d) \cup {k} |-> IF x = k THEN v ELSE d[x]]
\* dict.get(k, dflt)
Get(d, k, dflt) == IF k \in DOMAIN d THEN d[k] ELSE dflt

(***************************************************************************)
(* Characters and the names that occur as dict keys                        *)
(***************************************************************************)
Q == "\""
BS == "\\"
CR == "\r"
LF == "\n"
Digits == <<"0", "1", "2", "3", "4", "5", "6", "7", "8", "9">>
HexDigits == Digits \o <<"a", "b", "c", "d", "e", "f">>

\* the characters of every key the model uses (head fields, body keys)
KeyChars ==
  [hk |-> <<"h", "k">>, hl |-> <<"h", "l">>, vn |-> <<"v", "n">>,
   sd |-> <<"s", "d">>, dd |-> <<"d", "d">>, cf |-> <<"c", "f">>,
   mf |-> <<"m", "f">>, si |-> <<"s", "i">>, ti |-> <<"t", "i">>,
   sk |-> <<"s", "k">>, pk |-> <<"p", "k">>, bf |-> <<"b", "f">>,
   oi |-> <<"o", "i">>, dt |-> <<"d", "t">>, sn |-> <<"s", "n">>,
   sc |-> <<"s", "c">>, pf |-> <<"p", "f">>, af |-> <<"a", "f">>,
   nk |-> <<"n", "k">>, nl |-> <<"n", "l">>, bk |-> <<"b", "k">>,
   bl |-> <<"b", "l">>, tk |-> <<"t", "k">>, tl |-> <<"t", "l">>,
   a |-> <<"a">>, b |-> <<"b">>]

\* the key spelled by a character sequence ("??" for a name outside KeyChars)
KeyOf(cs) ==
  IF \E k \in DOMAIN KeyChars : KeyChars[k] = cs
  THEN CHOOSE k \in DOMAIN KeyChars : KeyChars[k] = cs
  ELSE "??"

IndexOf(seq, c) ==
  IF \E i \in 1..Len(seq) : seq[i] = c
  THEN CHOOSE i \in 1..Len(seq) : seq[i] = c /\ \A j \in 1..(i - 1) : seq[j] # c
  ELSE 0

(***************************************************************************)
(* String primitives                                                       *)
(***************************************************************************)
\* s[i:] and s[:i] for 0 <= i
Drop(s, i) == IF i >= Len(s) THEN <<>> ELSE SubSeq(s, i + 1, Len(s))
Take(s, i) == IF i >= Len(s) THEN s ELSE SubSeq(s, 1, i)

\* old occurs in s at 1-based position i
OccursAt(s, old, i) ==
  /\ i + Len(old) - 1 <= Len(s)
  /\ \A j \in 1..Len(old) : s[i + j - 1] = old[j]

\* s.find(old) + 1, and 0 when old is not in s
Find(s, old) ==
  IF \E i \in 1..Len(s) : OccursAt(s, old, i)
  THEN CHOOSE i \in 1..Len(s) :
         OccursAt(s, old, i) /\ \A j \in 1..(i - 1) : ~OccursAt(s, old, j)
  ELSE 0

StartsWith(s, pre) == OccursAt(s, pre, 1)
Contains(s, sub) == Find(s, sub) # 0

\* s with the Len(old) characters at position i replaced by new (s itself
\* when i = 0)
Splice(s, i, old, new) ==
  IF i = 0 THEN s
  ELSE Take(s, i - 1) \o new \o Drop(s, i - 1 + Len(old))

\* s.replace(old, new, 1)
Replace1(s, old, new) == Splice(s, Find(s, old), old, new)

\* pack[:n] and pack[n:] with Python's index rules: None is "no bound",
\* a negative index counts from the end
ClampIdx(s, i) ==
  IF i < 0 THEN (IF Len(s) + i < 0 THEN 0 ELSE Len(s) + i)
  ELSE (IF i > Len(s) THEN Len(s) ELSE i)
SliceTo(s, v) == IF v.t = "none" THEN s ELSE Take(s, ClampIdx(s, v.n))
SliceFrom(s, v) == IF v.t = "none" THEN s ELSE Drop(s, ClampIdx(s, v.n))
\* a slice index must be an integer or None, else TypeError
SliceOk(v) == v.t \in {"none", "int"}

(***************************************************************************)
(* Number formatting and parsing                                           *)
(***************************************************************************)
RECURSIVE DecNat(_)
DecNat(i) == IF i < 10 THEN <<Digits[i + 1]>>
             ELSE DecNat(i \div 10) \o <<Digits[(i % 10) + 1]>>
\* str(i) for an int
Dec(i) == IF i < 0 THEN <<"-">> \o DecNat(0 - i) ELSE DecNat(i)

RECURSIVE HexNat(_)
HexNat(i) == IF i < 16 THEN <<HexDigits[i + 1]>>
             ELSE HexNat(i \div 16) \o <<HexDigits[(i % 16) + 1]>>
\* "{0:02x}".format(i) : lower-case hex, zero-padded to width 2
Hex02(i) == IF i < 16 THEN <<"0">> \o HexNat(i) ELSE HexNat(i)
\* s[-2:]
LastTwo(s) == IF Len(s) <= 2 THEN s ELSE SubSeq(s, Len(s) - 1, Len(s))

IsHexText(cs) ==
  /\ cs # <<>>
  /\ \A i \in 1..Len(cs) : IndexOf(HexDigits, cs[i]) # 0
RECURSIVE HexValue(_)
HexValue(cs) ==
  IF cs = <<>> THEN 0
  ELSE 16 * HexValue(SubSeq(cs, 1, Len(cs) - 1))
         + (IndexOf(HexDigits, cs[Len(cs)]) - 1)

\* int(v, 16): "ok" with the value, TypeError for a non-string,
\* ValueError for text that is not hexadecimal
IntBase16(v) ==
  IF v.t # "str" THEN [exc |-> "TypeError", n |-> 0]
  ELSE IF ~IsHexText(v.s) THEN [exc |-> "ValueError", n |-> 0]
  ELSE [exc |-> "", n |-> HexValue(v.s)]

(***************************************************************************)
(* json.dumps(kit, separators=(',', ':')) and json.loads                   *)
(***************************************************************************)
\* the escaped text of one character inside a JSON string
EscapeChar(c) ==
  CASE c = Q -> <<BS, Q>>
    [] c = BS -> <<BS, BS>>
    [] c = CR -> <<BS, "r">>
    [] c = LF -> <<BS, "n">>
    [] OTHER -> <<c>>

\* every character escaped, halving the text so the recursion stays shallow
RECURSIVE Escape(_)
Escape(cs) ==
  IF cs = <<>> THEN <<>>
  ELSE IF Len(cs) = 1 THEN EscapeChar(cs[1])
  ELSE Escape(SubSeq(cs, 1, Len(cs) \div 2))
         \o Escape(SubSeq(cs, (Len(cs) \div 2) + 1, Len(cs)))

RECURSIVE Dumps(_)
RECURSIVE DumpPairs(_)
DumpPairs(ps) ==
  IF ps = <<>> THEN <<>>
  ELSE <<Q>> \o KeyChars[ps[1][1]] \o <<Q, ":">> \o Dumps(ps[1][2])
         \o (IF Len(ps) > 1 THEN <<",">> \o DumpPairs(Tail(ps)) ELSE <<>>)
Dumps(v) ==
  CASE v.t = "none" -> <<"n", "u", "l", "l">>
    [] v.t = "int" -> Dec(v.n)
    [] v.t = "str" -> <<Q>> \o Escape(v.s) \o <<Q>>
    [] OTHER -> <<"{">> \o DumpPairs(v.m) \o <<"}">>

\* odict item assignment on a sequence of pairs: a present key keeps its
\* place and takes the new value, an absent key is appended
PutPair(ps, k, v) ==
  IF \E i \in 1..Len(ps) : ps[i][1] = k
  THEN [i \in 1..Len(ps) |-> IF ps[i][1] = k THEN <<k, v>> ELSE ps[i]]
  ELSE Append(ps, <<k, v>>)

ParseFail == [ok |-> FALSE, v |-> NoneV, i |-> 0]

\* the number of backslashes that immediately precede position j, counted
\* no further back than position i
BSRun(s, i, j) ==
  LET k == CHOOSE x \in (i - 1)..(j - 1) :
             /\ x = i - 1 \/ s[x] # BS
             /\ \A y \in (x + 1)..(j - 1) : s[y] = BS
  IN j - 1 - k

\* position k starts an escape pair of the string that begins at i
EscStart(s, i, k) == s[k] = BS /\ BSRun(s, i, k) % 2 = 0

\* position j holds the quote that closes the string that begins at i
ClosesStr(s, i, j) == s[j] = Q /\ BSRun(s, i, j) % 2 = 0

UnescapeChar(c) ==
  CASE c = "r" -> CR
    [] c = "n" -> LF
    [] OTHER -> c

\* the characters s[lo..hi] of the string that begins at i, escapes undone;
\* the range is halved between escape pairs
RECURSIVE Unescape(_, _, _, _)
Unescape(s, i, lo, hi) ==
  IF lo > hi THEN <<>>
  ELSE IF lo = hi THEN <<s[lo]>>
  ELSE IF hi = lo + 1 /\ EscStart(s, i, lo) THEN <<UnescapeChar(s[hi])>>
  ELSE LET mid == (lo + hi) \div 2
           cut == IF mid > lo /\ EscStart(s, i, mid) THEN mid - 1 ELSE mid
       IN Unescape(s, i, lo, cut) \o Unescape(s, i, cut + 1, hi)

\* the string that begins at i and is closed by the quote at j: no raw
\* control character, only the escapes \" \\ \r \n
StrUpTo(s, i, j) ==
  IF \A k \in i..(j - 1) :
       /\ s[k] \notin {CR, LF}
       /\ EscStart(s, i, k) => s[k + 1] \in {Q, BS, "r", "n"}
  THEN [ok |-> TRUE, v |-> StrV(Unescape(s, i, i, j - 1)), i |-> j + 1]
  ELSE ParseFail

\* a JSON string from position i (just after the opening quote) up to the
\* first closing quote
ParseStr(s, i) ==
  IF ~\E j \in i..Len(s) : ClosesStr(s, i, j) THEN ParseFail
  ELSE StrUpTo(s, i, CHOOSE x \in i..Len(s) :
                       ClosesStr(s, i, x) /\ \A y \in i..(x - 1) : ~ClosesStr(s, i, y))

IsDigit(c) == IndexOf(Digits, c) # 0

RECURSIVE ParseDigits(_, _, _)
ParseDigits(s, i, acc) ==
  IF i <= Len(s) /\ IsDigit(s[i])
  THEN ParseDigits(s, i + 1, 10 * acc + (IndexOf(Digits, s[i]) - 1))
  ELSE [ok |-> TRUE, v |-> IntV(acc), i |-> i]

\* 0|[1-9][0-9]*
ParseNat(s, i) ==
  IF i > Len(s) \/ ~IsDigit(s[i]) THEN ParseFail
  ELSE IF s[i] = "0" THEN [ok |-> TRUE, v |-> IntV(0), i |-> i + 1]
  ELSE ParseDigits(s, i, 0)
Negated(r) == IF r.ok THEN [ok |-> TRUE, v |-> IntV(0 - r.v.n), i |-> r.i] ELSE r
\* -?(0|[1-9][0-9]*)
ParseInt(s, i) == IF s[i] = "-" THEN Negated(ParseNat(s, i + 1)) ELSE ParseNat(s, i)

RECURSIVE ParseValue(_, _)
RECURSIVE ParseMembers(_, _, _)
\* after the member key : x, either the object ends or another member follows
MemberEnd(s, ps, i) ==
  CASE s[i] = "}" -> [ok |-> TRUE, v |-> MapV(ps), i |-> i + 1]
    [] s[i] = "," -> ParseMembers(s, i + 1, ps)
    [] OTHER -> ParseFail
MemberValue(s, acc, key, x) ==
  IF ~x.ok \/ x.i > Len(s) THEN ParseFail
  ELSE MemberEnd(s, PutPair(acc, key, x.v), x.i)
MemberKey(s, acc, k) ==
  IF ~k.ok \/ k.i > Len(s) \/ s[k.i] # ":" THEN ParseFail
  ELSE MemberValue(s, acc, KeyOf(k.v.s), ParseValue(s, k.i + 1))
\* the members of an object from position i, which holds the opening quote
\* of a key
ParseMembers(s, i, acc) ==
  IF i > Len(s) \/ s[i] # Q THEN ParseFail
  ELSE MemberKey(s, acc, ParseStr(s, i + 1))
ParseValue(s, i) ==
  IF i > Len(s) THEN ParseFail
  ELSE CASE s[i] = Q -> ParseStr(s, i + 1)
         [] s[i] = "{" ->
              IF i + 1 <= Len(s) /\ s[i + 1] = "}"
              THEN [ok |-> TRUE, v |-> MapV(<<>>), i |-> i + 2]
              ELSE ParseMembers(s, i + 1, <<>>)
         [] s[i] = "n" ->
              IF OccursAt(s, <<"n", "u", "l", "l">>, i)
              THEN [ok |-> TRUE, v |-> NoneV, i |-> i + 4]
              ELSE ParseFail
         [] s[i] = "-" \/ IsDigit(s[i]) -> ParseInt(s, i)
         [] OTHER -> ParseFail

\* the document r read from s, or ValueError when s is not exactly one
\* JSON document
Document(s, r) ==
  IF r.ok /\ r.i = Len(s) + 1 THEN [exc |-> "", v |-> r.v]
  ELSE [exc |-> "ValueError", v |-> NoneV]

\* json.loads(s, object_pairs_hook=odict)
Loads(s) == Document(s, ParseValue(s, 1))

(***************************************************************************)
(* Constants of the module                                                 *)
(***************************************************************************)
MAX_HEAD_LEN == 255
JSON_END == <<CR, LF, CR, LF>>

KindUnknown == 255

\* the kind registries, as ordered name/code pairs
HEAD_KINDS == << <<"json", 0>>, <<"binary", 1>>, <<"unknown", KindUnknown>> >>
NECK_KINDS == << <<"nada", 0>>, <<"sodium", 1>>, <<"sha2", 2>>,
                 <<"crc64", 2>>, <<"unknown", KindUnknown>> >>
BODY_KINDS == << <<"nada", 0>>, <<"json", 1>>, <<"binary", 1>>,
                 <<"unknown", KindUnknown>> >>
TAIL_KINDS == << <<"nada", 0>>, <<"crc16", 1>>, <<"crc64", 2>>,
                 <<"unknown", KindUnknown>> >>
SERVICE_KINDS == << <<"fireforget", 0>>, <<"ackretry", 1>>,
                    <<"unknown", KindUnknown>> >>
PACKET_KINDS == << <<"data", 0>>, <<"req", 1>>, <<"ack", 8>>, <<"nack", 9>>,
                   <<"unknown", KindUnknown>> >>

\* odict((v, k) for k, v in KINDS.iteritems()), the inverse map of a
\* registry: for a code entered twice the later name replaces the earlier
KIND_NAMES(reg) ==
  [c \in {reg[i][2] : i \in DOMAIN reg} |->
     reg[CHOOSE i \in DOMAIN reg :
           /\ reg[i][2] = c
           /\ \A j \in DOMAIN reg : reg[j][2] = c => j <= i][1]]

\* namedtuple(**KINDS): the code a registry gives a name
KindCode(reg, name) == (CHOOSE i \in 1..Len(reg) : reg[i][1] = name) 
KindOf(reg, name) == IntV(reg[KindCode(reg, name)][2])

headKinds == [json |-> KindOf(HEAD_KINDS, "json"),
              binary |-> KindOf(HEAD_KINDS, "binary"),
              unknown |-> KindOf(HEAD_KINDS, "unknown")]
neckKinds == [nada |-> KindOf(NECK_KINDS, "nada"),
              sodium |-> KindOf(NECK_KINDS, "sodium"),
              sha2 |-> KindOf(NECK_KINDS, "sha2"),
              crc64 |-> KindOf(NECK_KINDS, "crc64"),
              unknown |-> KindOf(NECK_KINDS, "unknown")]
bodyKinds == [nada |-> KindOf(BODY_KINDS, "nada"),
              json |-> KindOf(BODY_KINDS, "json"),
              binary |-> KindOf(BODY_KINDS, "binary"),
              unknown |-> KindOf(BODY_KINDS, "unknown")]
tailKinds == [nada |-> KindOf(TAIL_KINDS, "nada"),
              crc16 |-> KindOf(TAIL_KINDS, "crc16"),
              crc64 |-> KindOf(TAIL_KINDS, "crc64"),
              unknown |-> KindOf(TAIL_KINDS, "unknown")]

DefaultPort == 7530
Loopback == <<"1", "2", "7", ".", "0", ".", "0", ".", "1">>

META_DEFAULTS ==
  << <<"sh", EmptyStr>>, <<"sp", IntV(DefaultPort)>>, <<"dh", StrV(Loopback)>>,
     <<"dp", IntV(DefaultPort)>>, <<"vn", IntV(0)>>, <<"hk", NoneV>>,
     <<"hl", NoneV>>, <<"nk", IntV(0)>>, <<"nl", IntV(0)>>, <<"bk", IntV(0)>>,
     <<"bl", IntV(0)>>, <<"tk", IntV(0)>>, <<"tl", IntV(0)>> >>

\* a default of None marks a field that is always emitted
HEAD_DEFAULTS ==
  << <<"hk", NoneV>>, <<"hl", NoneV>>, <<"vn", IntV(0)>>, <<"sd", NoneV>>,
     <<"dd", NoneV>>, <<"cf", IntV(0)>>, <<"mf", IntV(0)>>, <<"si", IntV(0)>>,
     <<"ti", IntV(0)>>, <<"sk", NoneV>>, <<"pk", NoneV>>, <<"bf", IntV(0)>>,
     <<"oi", IntV(0)>>, <<"dt", IntV(0)>>, <<"sn", IntV(0)>>, <<"sc", IntV(1)>>,
     <<"pf", IntV(0)>>, <<"af", IntV(0)>>, <<"nk", IntV(0)>>, <<"nl", IntV(0)>>,
     <<"bk", IntV(0)>>, <<"bl", IntV(0)>>, <<"tk", IntV(0)>>, <<"tl", IntV(0)>> >>

META_LEN_FIELDS == <<"nl", "bl", "tl">>
META_KIND_FIELDS == <<"nk", "bk", "tk">>

\* the keys of an ordered mapping, and the dict it denotes
PairKeys(ps) == {ps[i][1] : i \in 1..Len(ps)}
PairValue(ps, k) == ps[CHOOSE i \in 1..Len(ps) : ps[i][1] = k][2]
DictOf(ps) == [k \in PairKeys(ps) |-> PairValue(ps, k)]

\* kit.update(other): every item of other written into kit
Update(kit, other) ==
  [k \in (DOMAIN kit) \cup (DOMAIN other) |->
     IF k \in DOMAIN other THEN other[k] ELSE kit[k]]

\* updateMissing(kit, defaults)
updateMissing(kit, defaults) ==
  [k \in (DOMAIN kit) \cup PairKeys(defaults) |->
     IF k \in DOMAIN kit THEN kit[k] ELSE PairValue(defaults, k)]

\* defaultData() with the raw packet in 'pack'
defaultData(raw) ==
  [meta |-> EmptyDict, head |-> EmptyDict, neck |-> EmptyDict,
   body |-> EmptyDict, tail |-> EmptyDict, pack |-> raw]

\* len(part['pack'])
PackLen(part) == Len(part["pack"].s)

(***************************************************************************)
(* What a stage leaves: meta, the part it works on, the buffer it returns  *)
(* (parse stages) and the exception that ended it, if any                  *)
(***************************************************************************)
Res(pack, meta, part, exc) ==
  [pack |-> pack, meta |-> meta, part |-> part, exc |-> exc]

\* meta['error'] = ''
Cleared(meta) == Put(meta, "error", EmptyStr)

\* meta[field] = len(part['pack']), the last line of a pack stage
LenSet(meta, field, part) ==
  Res(<<>>, Put(meta, field, IntV(PackLen(part))), part, "")

(***************************************************************************)
(* The pack stages                                                         *)
(***************************************************************************)
\* line 257: body.get('raw', '') or body.get('data', {})
BodyKit(body) ==
  IF Truthy(Get(body, "raw", EmptyStr)) THEN Get(body, "raw", EmptyStr)
  ELSE Get(body, "data", MapV(<<>>))

\* lines 255-259
BodyPacked(meta, body) ==
  IF Get(meta, "bk", NoneV) = bodyKinds.json
  THEN Put(body, "pack", StrV(Dumps(BodyKit(body))))
  ELSE Put(body, "pack", EmptyStr)

packBody(meta, body) == LenSet(meta, "bl", BodyPacked(meta, body))

packTail(meta, body, tail) == LenSet(meta, "tl", Put(tail, "pack", EmptyStr))

\* for field in fields: dst[field] = src[field]; stops with KeyError at the
\* first field src lacks
RECURSIVE CopyFields(_, _, _)
CopyFields(src, dst, fields) ==
  IF fields = <<>> THEN [d |-> dst, exc |-> ""]
  ELSE IF ~Has(src, Head(fields)) THEN [d |-> dst, exc |-> "KeyError"]
  ELSE CopyFields(src, Put(dst, Head(fields), src[Head(fields)]), Tail(fields))

\* Emits with the mandatory sentinel forgotten: a field is emitted only when
\* it differs from its default (the fault C9_ElisionCorrect must detect)
EmitsWhenSet(k, v, head) == head[k] # v

\* lines 286-290: whether head field k, whose default is v, is emitted
Emits(k, v, head) == IF v = NoneV THEN TRUE ELSE head[k] # v

\* lines 285-290: the emitted fields, in HEAD_DEFAULTS order; KeyError at
\* the first field head lacks
RECURSIVE HeadKit(_, _, _)
HeadKit(head, defaults, kit) ==
  IF defaults = <<>> THEN [kit |-> kit, exc |-> ""]
  ELSE IF ~Has(head, Head(defaults)[1]) THEN [kit |-> kit, exc |-> "KeyError"]
  ELSE HeadKit(head, Tail(defaults),
               IF Emits(Head(defaults)[1], Head(defaults)[2], head)
               THEN PutPair(kit, Head(defaults)[1], head[Head(defaults)[1]])
               ELSE kit)

HlPlaceholder == <<Q, "h", "l", Q, ":", Q, "0", "0", Q>>
\* HlField with the length written in decimal instead of hexadecimal (the
\* fault C10_LengthPatchCorrect must detect)
HlFieldDecimal(hl) == <<Q, "h", "l", Q, ":", Q>> \o LastTwo(Dec(hl)) \o <<Q>>

\* '"hl":"{0}"'.format("{0:02x}".format(hl)[-2:])
HlField(hl) == <<Q, "h", "l", Q, ":", Q>> \o LastTwo(Hex02(hl)) \o <<Q>>

\* lines 292-294: the header text with the length placeholder
HeadText(kit) ==
  Dumps(MapV(PutPair(kit, "hl", StrV(<<"0", "0">>)))) \o JSON_END

\* line 302: the true length substituted for the placeholder
PatchLen(packed, hl) == Replace1(packed, HlPlaceholder, HlField(hl))

\* TooLong with the comparison off by one: a header of exactly MAX_HEAD_LEN
\* characters is refused (the fault C11_MaxLengthBoundary must detect)
TooLongAtMax(hl) == hl >= MAX_HEAD_LEN

\* line 296
TooLong(hl) == hl > MAX_HEAD_LEN

\* lines 295-303
HeadFinal(meta, head, packed) ==
  IF TooLong(Len(packed))
  THEN Res(<<>>,
           Put(Put(meta, "error", Text("Head length exceeds max")), "hl",
               IntV(0)),
           head, "")
  ELSE Res(<<>>, Put(meta, "hl", IntV(Len(packed))),
           Put(Put(head, "hl", IntV(Len(packed))), "pack",
               StrV(PatchLen(packed, Len(packed)))),
           "")

\* lines 285-294
HeadEmitted(meta, head, hk) ==
  IF hk.exc # "" THEN Res(<<>>, meta, head, hk.exc)
  ELSE HeadFinal(meta, head, HeadText(hk.kit))

\* lines 281-284, sync being the outcome of the copy from meta
HeadSynced(meta, sync) ==
  IF sync.exc # "" THEN Res(<<>>, meta, sync.d, sync.exc)
  ELSE HeadEmitted(meta, sync.d, HeadKit(sync.d, HEAD_DEFAULTS, <<>>))

packHead(meta, head) ==
  IF Get(head, "hk", NoneV) # headKinds.json
  THEN Res(<<>>, Cleared(meta), Put(head, "pack", EmptyStr), "")
  ELSE HeadSynced(Cleared(meta),
                  CopyFields(Cleared(meta), Put(head, "pack", EmptyStr),
                             META_LEN_FIELDS \o META_KIND_FIELDS))

packNeck(meta, head, neck) == LenSet(meta, "nl", Put(neck, "pack", EmptyStr))

\* line 247: '{0}{1}{2}{3}'.format(head, neck, body, tail)
JoinParts(d) ==
  StrV(d.head["pack"].s \o d.neck["pack"].s \o d.body["pack"].s
         \o d.tail["pack"].s)

(***************************************************************************)
(* The parse stages                                                        *)
(***************************************************************************)
HeadMarker == <<"{", Q, "h", "k", Q, ":", "0", ",">>

\* line 350: the test for a json header
Recognized(pack) == StartsWith(pack, HeadMarker) /\ Contains(pack, JSON_END)

\* s split around the Len(sep) characters at position i
SplitAt(s, i, sep) ==
  [front |-> Take(s, i - 1), sep |-> sep, back |-> Drop(s, i - 1 + Len(sep))]

\* pack.partition(JSON_END), for a pack that contains JSON_END
Partition(pack) == SplitAt(pack, Find(pack, JSON_END), JSON_END)

\* lines 363-365: the error left by the head length check
LenCheck(hl, meta, err) ==
  IF hl # meta["hl"].n
  THEN Text("Actual head length does not match head field value.")
  ELSE err

\* lines 367-368: the error left by the head kind check
KindCheck(head, meta, err) ==
  IF head["hk"] # meta["hk"]
  THEN Text("Actual head kind does not match head field value.")
  ELSE err

\* lines 370-373, sync being the outcome of the copy from head
HeadMirrored(back, head, sync) == Res(back, sync.d, head, sync.exc)

\* lines 363-373, hl being the outcome of int(head['hl'], 16)
HeadChecked(back, meta, head, hl) ==
  IF hl.exc # "" THEN Res(back, meta, head, hl.exc)
  ELSE HeadMirrored(back, head,
         CopyFields(head,
                    Put(meta, "error",
                        KindCheck(head, meta, LenCheck(hl.n, meta, EmptyStr))),
                    META_LEN_FIELDS \o META_KIND_FIELDS))

\* lines 361-363
HeadUpdated(back, meta, head) ==
  HeadChecked(back, meta, head, IntBase16(head["hl"]))

\* lines 358-361, kit being the outcome of json.loads(front)
HeadLoaded(back, meta, head, kit) ==
  IF kit.exc # "" THEN Res(back, meta, head, kit.exc)
  ELSE HeadUpdated(back, meta, Update(head, DictOf(kit.v.m)))

\* lines 351-358
HeadSplit(parts, meta, head) ==
  HeadLoaded(parts.back,
             Put(Put(meta, "hk", headKinds.json), "hl",
                 IntV(Len(parts.front \o parts.sep))),
             Update(Put(head, "pack", StrV(parts.front \o parts.sep)),
                    DictOf(HEAD_DEFAULTS)),
             Loads(parts.front))

\* lines 375-378
HeadUnknown(meta) ==
  Put(Put(Put(meta, "hl", IntV(0)), "hk", headKinds.unknown), "error",
      Text("Unrecognizible packet head."))

parseHead(pack, meta, head) ==
  IF Recognized(pack) THEN HeadSplit(Partition(pack), Cleared(meta), head)
  ELSE Res(pack, HeadUnknown(Cleared(meta)), head, "")

\* Unrecognizible with the length left as declared (the fault
\* C14_MetaMirrorsUntilUnknown must detect)
UnrecognizibleKeepsLen(meta, lenField, kindField, unknown, msg) ==
  Put(Put(meta, kindField, unknown), "error", Text(msg))

\* the else branch shared by parseNeck, parseBody and parseTail: the length
\* zeroed, the kind set to unknown, the error set
Unrecognizible(meta, lenField, kindField, unknown, msg) ==
  Put(Put(Put(meta, lenField, IntV(0)), kindField, unknown), "error", Text(msg))

\* lines 390-401, nl being meta.get('nl', 0)
NeckSliced(pack, meta, neck, nl) ==
  IF ~SliceOk(nl) THEN Res(pack, meta, neck, "TypeError")
  ELSE Res(SliceFrom(pack, nl),
           IF Get(meta, "nk", NoneV) = neckKinds.nada THEN meta
           ELSE Unrecognizible(meta, "nl", "nk", neckKinds.unknown,
                               "Unrecognizible packet neck."),
           Put(neck, "pack", StrV(SliceTo(pack, nl))), "")

parseNeck(pack, meta, neck) ==
  NeckSliced(pack, Cleared(meta), neck, Get(meta, "nl", IntV(0)))

\* BodyLoaded with the two branches of the Mapping test swapped (the fault
\* C1_RoundTripFresh must detect)
BodyLoadedSwapped(back, meta, body, kit) ==
  IF kit.exc # "" THEN Res(back, meta, body, kit.exc)
  ELSE Res(back, meta,
           IF kit.v.t = "map" THEN Put(body, "raw", kit.v)
           ELSE Put(body, "data", kit.v),
           "")

\* lines 417-421, kit being the outcome of json.loads(body['pack'])
BodyLoaded(back, meta, body, kit) ==
  IF kit.exc # "" THEN Res(back, meta, body, kit.exc)
  ELSE Res(back, meta,
           IF kit.v.t = "map" THEN Put(body, "data", kit.v)
           ELSE Put(body, "raw", kit.v),
           "")

\* lines 415-428, body['pack'] being set
BodyKinded(back, meta, body, bl) ==
  IF Get(meta, "bk", NoneV) = bodyKinds.json
  THEN IF Truthy(bl) THEN BodyLoaded(back, meta, body, Loads(body["pack"].s))
       ELSE Res(back, meta, body, "")
  ELSE Res(back,
           Unrecognizible(meta, "bl", "bk", bodyKinds.unknown,
                          "Unrecognizible packet body."),
           body, "")

\* lines 412-428, bl being meta.get('bl', 0)
BodySliced(pack, meta, body, bl) ==
  IF ~SliceOk(bl) THEN Res(pack, meta, body, "TypeError")
  ELSE BodyKinded(SliceFrom(pack, bl), meta,
                  Put(body, "pack", StrV(SliceTo(pack, bl))), bl)

parseBody(pack, meta, body) ==
  BodySliced(pack, Cleared(meta), Put(body, "raw", EmptyStr),
             Get(meta, "bl", IntV(0)))

\* lines 438-449, tl being meta.get('tl', 0)
TailSliced(pack, meta, tail, tl) ==
  IF ~SliceOk(tl) THEN Res(pack, meta, tail, "TypeError")
  ELSE Res(SliceFrom(pack, tl),
           IF Get(meta, "tk", NoneV) = tailKinds.nada THEN meta
           ELSE Unrecognizible(meta, "tl", "tk", tailKinds.unknown,
                               "Unrecognizible packet tail."),
           Put(tail, "pack", StrV(SliceTo(pack, tl))), "")

parseTail(pack, meta, tail) ==
  TailSliced(pack, Cleared(meta), tail, Get(meta, "tl", IntV(0)))

(***************************************************************************)
(* The packets handed to packPacket                                        *)
(***************************************************************************)
\* the longest source device id tried: with the other fields at their
\* defaults it puts the header one character over MAX_HEAD_LEN
MaxPad == 188

Pad(i) == [j \in 1..i |-> "x"]

\* text that holds the length placeholder and the end marker verbatim
TrickyText == HlPlaceholder \o JSON_END

\* a value other than the default for the non-mandatory fields varied
NonDefault == [vn |-> IntV(1), sc |-> IntV(2)]

SdValues ==
  {NoneV, StrV(TrickyText), StrV(Pad(MaxPad - 2)), StrV(Pad(MaxPad - 1)),
   StrV(Pad(MaxPad))}

\* a head with every field of HEAD_DEFAULTS, of kind hk, from device sd,
\* with the fields in over away from their defaults
HeadOf(hk, sd, over) ==
  LET base == DictOf(HEAD_DEFAULTS)
  IN [k \in DOMAIN base |->
        CASE k = "hk" -> hk
          [] k = "sd" -> sd
          [] k = "sk" -> IntV(1)
          [] k = "pk" -> IntV(0)
          [] k \in over -> NonDefault[k]
          [] OTHER -> base[k]]

Without(d, k) == [x \in (DOMAIN d) \ {k} |-> d[x]]

SenderHeads ==
  {HeadOf(hk, sd, over) : hk \in {headKinds.json, headKinds.binary},
                          sd \in SdValues, over \in SUBSET (DOMAIN NonDefault)}
    \cup {Without(HeadOf(headKinds.json, NoneV, {}), "af"), EmptyDict}

\* a meta with every field of META_DEFAULTS and body kind json
BaseMeta == Put(DictOf(META_DEFAULTS), "bk", bodyKinds.json)

SenderMetas ==
  {BaseMeta,
   Put(BaseMeta, "bk", bodyKinds.nada),
   Put(BaseMeta, "bk", IntV(2)),
   Put(BaseMeta, "nk", neckKinds.sodium),
   Put(BaseMeta, "tk", tailKinds.crc64),
   Put(BaseMeta, "nl", IntV(3)),
   Put(Put(BaseMeta, "hl", IntV(9)), "error", Text("stale")),
   Without(BaseMeta, "nl"),
   Without(BaseMeta, "tk")}

MapA == MapV(<< <<"a", IntV(1)>> >>)
MapAB == MapV(<< <<"a", IntV(1)>>, <<"b", IntV(-22)>> >>)
\* text with characters json escapes, None, and a mapping in a mapping
MapMixed ==
  MapV(<< <<"a", StrV(<<"x", Q, BS, LF, "y">>)>>, <<"b", NoneV>>,
          <<"sd", MapA>> >>)

SenderBodies ==
  {EmptyDict,
   [data |-> MapV(<<>>)],
   [data |-> MapA],
   [data |-> MapAB],
   [data |-> MapMixed],
   [data |-> MapA, raw |-> StrV(<<"x">>)],
   [raw |-> IntV(5)]}

SenderPackets ==
  {[meta |-> m, head |-> h, neck |-> EmptyDict, body |-> b,
    tail |-> EmptyDict, pack |-> EmptyStr] :
     m \in SenderMetas, h \in SenderHeads, b \in SenderBodies}

(***************************************************************************)
(* The raw packets handed to parsePacket                                   *)
(***************************************************************************)
MandatoryRest == << <<"sd", NoneV>>, <<"dd", NoneV>>, <<"sk", IntV(0)>>,
                    <<"pk", IntV(0)>> >>

\* the header fields after hk and hl
CraftedKits ==
  {MandatoryRest,
   MandatoryRest \o << <<"bk", IntV(1)>>, <<"bl", IntV(7)>> >>,
   MandatoryRest \o << <<"bk", IntV(2)>>, <<"bl", IntV(3)>> >>,
   MandatoryRest \o << <<"bk", IntV(1)>>, <<"bl", StrV(<<"7">>)>> >>,
   MandatoryRest \o << <<"bk", IntV(1)>>, <<"bl", NoneV>> >>,
   MandatoryRest \o << <<"bk", IntV(1)>>, <<"bl", IntV(20)>> >>,
   MandatoryRest \o << <<"bk", IntV(1)>>, <<"bl", IntV(-2)>> >>,
   MandatoryRest \o << <<"nl", StrV(<<"x">>)>> >>,
   MandatoryRest \o << <<"tl", StrV(<<"x">>)>> >>,
   MandatoryRest \o << <<"nk", IntV(1)>>, <<"nl", IntV(2)>>,
                       <<"bk", IntV(1)>>, <<"bl", IntV(7)>> >>,
   MandatoryRest \o << <<"bk", IntV(1)>>, <<"bl", IntV(7)>>,
                       <<"tk", IntV(1)>>, <<"tl", IntV(2)>> >>,
   MandatoryRest \o << <<"hk", IntV(1)>> >>}

HlModes == {"true", "omitted", "nonhex", "number", "placeholder"}

\* a header text: hk first, then the hl pair (if any), then the kit
FrameText(hlPair, kit) ==
  Dumps(MapV(<< <<"hk", IntV(0)>> >> \o hlPair \o kit)) \o JSON_END

HlAs(v) == << <<"hl", v>> >>

\* the header whose hl field is as the mode says
Frame(kit, mode) ==
  CASE mode = "true" ->
         PatchLen(FrameText(HlAs(StrV(<<"0", "0">>)), kit),
                  Len(FrameText(HlAs(StrV(<<"0", "0">>)), kit)))
    [] mode = "omitted" -> FrameText(<<>>, kit)
    [] mode = "nonhex" -> FrameText(HlAs(StrV(<<"z", "z">>)), kit)
    [] mode = "number" -> FrameText(HlAs(IntV(Len(FrameText(<<>>, kit)))), kit)
    [] OTHER -> FrameText(HlAs(StrV(<<"0", "0">>)), kit)

Payloads ==
  {<<>>, Dumps(MapA), Dumps(MapA) \o <<"x", "y">>, Take(Dumps(MapA), 4)}

CraftedBuffers ==
  {Frame(kit, mode) \o pl : kit \in CraftedKits, mode \in HlModes,
                            pl \in Payloads}
    \cup {<<>>, <<"x", "y">>,
          Dumps(MapV(<< <<"hk", IntV(0)>> >>)),
          <<"x">> \o Frame(MandatoryRest, "true"),
          HeadMarker \o <<"x", "x">> \o JSON_END}

\* what the caller has in meta before the call
ReceiverMetas ==
  {EmptyDict, [nl |-> IntV(1), error |-> Text("stale")]}

ReceiverPackets ==
  {[defaultData(StrV(buf)) EXCEPT !.meta = m] :
     buf \in CraftedBuffers, m \in ReceiverMetas}

(***************************************************************************)
(* The calls as a state machine, one step per stage                        *)
(***************************************************************************)
VARIABLES
  data,   \* data[p]: the packet p (meta, head, neck, body, tail, pack)
  pc,     \* pc[p]: the next step of the call on packet p
  rest,   \* rest[p]: parsePacket's local, the buffer not yet consumed
  ret,    \* ret[p]: what the call returned (Unset while it runs)
  exc,    \* exc[p]: the exception that left the call, or ""
  pre,    \* pre[p]: the packet as it was when the call began
  sent,   \* sent[p]: the sender's packet whose pack is being parsed, as it
          \* was given to packPacket (was) and as packPacket left it (now)
  trace,  \* trace[p]: the stage and hook calls made so far by the call
  tables  \* the module-level kind registries and default tables

vars == <<data, pc, rest, ret, exc, pre, sent, trace, tables>>

Unset == [t |-> "unset", n |-> 0, s |-> <<>>, m |-> <<>>]
NoPacket == defaultData(EmptyStr)
NotSent == [was |-> NoPacket, now |-> NoPacket]

\* the verdicts of vouchHead and verifyBody: the stubs of lines 452-465
\* answer True; either verdict is allowed, so that the rejection paths of
\* lines 333-334 and 337-338 are taken too
HookOutcomes == BOOLEAN

Error(d) == d.meta["error"]

Called(fn, args, failed) == [fn |-> fn, args |-> args, failed |-> failed]

\* the step after a stage: on, or out of the call with the exception
After(r, next) == IF r.exc = "" THEN next ELSE "raised"

\* lines 112-206: what the module holds once it is loaded; no stage assigns
\* to any of these names
Tables ==
  [HEAD_KINDS |-> HEAD_KINDS, NECK_KINDS |-> NECK_KINDS,
   BODY_KINDS |-> BODY_KINDS, TAIL_KINDS |-> TAIL_KINDS,
   SERVICE_KINDS |-> SERVICE_KINDS, PACKET_KINDS |-> PACKET_KINDS,
   META_DEFAULTS |-> META_DEFAULTS, HEAD_DEFAULTS |-> HEAD_DEFAULTS]

\* the calls of f, one per packet, about to start
Start(f) ==
  /\ data = [p \in DOMAIN f |-> f[p].data]
  /\ pc = [p \in DOMAIN f |->
             IF f[p].op = "pack" THEN "packBody" ELSE "parseStart"]
  /\ rest = [p \in DOMAIN f |-> <<>>]
  /\ ret = [p \in DOMAIN f |-> Unset]
  /\ exc = [p \in DOMAIN f |-> ""]
  /\ pre = [p \in DOMAIN f |-> f[p].data]
  /\ sent = [p \in DOMAIN f |-> NotSent]
  /\ trace = [p \in DOMAIN f |-> <<>>]
  /\ tables = Tables

\* one call: packPacket on a sender's packet (its result is then parsed), or
\* parsePacket on a raw packet
Init ==
  \/ \E d \in SenderPackets : Start(<<[op |-> "pack", data |-> d]>>)
  \/ \E d \in ReceiverPackets : Start(<<[op |-> "parse", data |-> d]>>)

\* Packed with meta kept in one dict that every packet shares: what the
\* stage leaves in meta shows in the other packets too (the fault
\* C15_CallsIndependent must detect)
PackedShared(p, fn, args, part, r, next) ==
  /\ data' = [q \in DOMAIN data |->
                IF q = p THEN [data[q] EXCEPT !.meta = r.meta, ![part] = r.part]
                ELSE [data[q] EXCEPT !.meta = r.meta]]
  /\ pc' = [pc EXCEPT ![p] = After(r, next)]
  /\ exc' = [exc EXCEPT ![p] = r.exc]
  /\ trace' = [trace EXCEPT ![p] = Append(@, Called(fn, args, FALSE))]
  /\ UNCHANGED <<rest, ret, pre, sent, tables>>

\* a pack stage has run on packet p and left r
Packed(p, fn, args, part, r, next) ==
  /\ data' = [data EXCEPT ![p].meta = r.meta, ![p][part] = r.part]
  /\ pc' = [pc EXCEPT ![p] = After(r, next)]
  /\ exc' = [exc EXCEPT ![p] = r.exc]
  /\ trace' = [trace EXCEPT ![p] = Append(@, Called(fn, args, FALSE))]
  /\ UNCHANGED <<rest, ret, pre, sent, tables>>

\* a stage that clears meta['error'] on entry has run on packet p and left
\* r: it failed exactly when it leaves an error
Reported(p, fn, args, part, r, next) ==
  /\ data' = [data EXCEPT ![p].meta = r.meta, ![p][part] = r.part]
  /\ pc' = [pc EXCEPT ![p] = After(r, next)]
  /\ exc' = [exc EXCEPT ![p] = r.exc]
  /\ trace' = [trace EXCEPT ![p] =
                 Append(@, Called(fn, args, r.meta["error"] # EmptyStr))]

PackBody(p) ==
  /\ pc[p] = "packBody"
  /\ Packed(p, "packBody", <<"meta", "body">>, "body",
            packBody(data[p].meta, data[p].body), "packTail")

PackTail(p) ==
  /\ pc[p] = "packTail"
  /\ Packed(p, "packTail", <<"meta", "body", "tail">>, "tail",
            packTail(data[p].meta, data[p].body, data[p].tail), "packHead")

PackHead(p) ==
  /\ pc[p] = "packHead"
  /\ Reported(p, "packHead", <<"meta", "head">>, "head",
              packHead(data[p].meta, data[p].head), "packNeck")
  /\ UNCHANGED <<rest, ret, pre, sent, tables>>

PackNeck(p) ==
  /\ pc[p] = "packNeck"
  /\ Packed(p, "packNeck", <<"meta", "head", "neck">>, "neck",
            packNeck(data[p].meta, data[p].head, data[p].neck), "packJoin")

\* lines 247-248: the parts joined into data['pack'] and returned
PackReturn(p) ==
  /\ pc[p] = "packJoin"
  /\ data' = [data EXCEPT ![p].pack = JoinParts(data[p])]
  /\ ret' = [ret EXCEPT ![p] = JoinParts(data[p])]
  /\ pc' = [pc EXCEPT ![p] = "packed"]
  /\ UNCHANGED <<rest, exc, pre, sent, trace, tables>>

\* the packed packet arrives: a fresh packet holds it as its raw pack and
\* parsePacket is called on that
Transmit(p) ==
  /\ pc[p] = "packed"
  /\ sent' = [sent EXCEPT ![p] = [was |-> pre[p], now |-> data[p]]]
  /\ data' = [data EXCEPT ![p] = defaultData(data[p].pack)]
  /\ pre' = [pre EXCEPT ![p] = defaultData(data[p].pack)]
  /\ pc' = [pc EXCEPT ![p] = "parseStart"]
  /\ ret' = [ret EXCEPT ![p] = Unset]
  /\ trace' = [trace EXCEPT ![p] = <<>>]
  /\ UNCHANGED <<rest, exc, tables>>

\* lines 320-329
ParseStart(p) ==
  /\ pc[p] = "parseStart"
  /\ data' = [data EXCEPT ![p].meta =
                Put(updateMissing(data[p].meta, tables.META_DEFAULTS), "error",
                    EmptyStr)]
  /\ rest' = [rest EXCEPT ![p] = data[p].pack.s]
  /\ pc' = [pc EXCEPT ![p] = "parseHead"]
  /\ UNCHANGED <<ret, exc, pre, sent, trace, tables>>

\* a parse stage has run on packet p and left r
Parsed(p, fn, args, part, r, next) ==
  /\ Reported(p, fn, args, part, r, next)
  /\ rest' = [rest EXCEPT ![p] = r.pack]
  /\ UNCHANGED <<ret, pre, sent, tables>>

ParseHead(p) ==
  /\ pc[p] = "parseHead"
  /\ Parsed(p, "parseHead", <<"pack", "meta", "head">>, "head",
            parseHead(rest[p], data[p].meta, data[p].head), "parseNeck")

ParseNeck(p) ==
  /\ pc[p] = "parseNeck"
  /\ Parsed(p, "parseNeck", <<"rest", "meta", "neck">>, "neck",
            parseNeck(rest[p], data[p].meta, data[p].neck), "vouchHead")

\* VouchNext with the verdict ignored: the body is parsed whatever vouchHead
\* said (the fault C7_RejectionShortCircuit must detect)
VouchNextAlways(ok) == "parseBody"

\* lines 333-334: where parsePacket goes on the verdict of vouchHead
VouchNext(ok) == IF ok THEN "parseBody" ELSE "parsed"

\* lines 333-334: the vouch checkpoint
VouchHead(p) ==
  /\ pc[p] = "vouchHead"
  /\ \E ok \in HookOutcomes :
       /\ trace' = [trace EXCEPT ![p] =
                      Append(@, Called("vouchHead", <<"meta", "head", "neck">>,
                                       ~ok))]
       /\ pc' = [pc EXCEPT ![p] = VouchNext(ok)]
       /\ ret' = [ret EXCEPT ![p] = IF ok THEN @ ELSE NoneV]
  /\ UNCHANGED <<data, rest, exc, pre, sent, tables>>

ParseBody(p) ==
  /\ pc[p] = "parseBody"
  /\ Parsed(p, "parseBody", <<"rest", "meta", "body">>, "body",
            parseBody(rest[p], data[p].meta, data[p].body), "parseTail")

ParseTail(p) ==
  /\ pc[p] = "parseTail"
  /\ Parsed(p, "parseTail", <<"rest", "meta", "tail">>, "tail",
            parseTail(rest[p], data[p].meta, data[p].tail), "verifyBody")

\* lines 337-340: what parsePacket returns on the verdict of verifyBody
VerifyReturn(ok, remainder) == IF ok THEN StrV(remainder) ELSE NoneV

\* lines 337-340: the verify checkpoint, then the remainder returned
VerifyBody(p) ==
  /\ pc[p] = "verifyBody"
  /\ \E ok \in HookOutcomes :
       /\ trace' = [trace EXCEPT ![p] =
                      Append(@, Called("verifyBody", <<"meta", "head", "tail">>,
                                       ~ok))]
       /\ ret' = [ret EXCEPT ![p] = VerifyReturn(ok, rest[p])]
  /\ pc' = [pc EXCEPT ![p] = "parsed"]
  /\ UNCHANGED <<data, rest, exc, pre, sent, tables>>

\* the next step of the call on packet p
Step(p) ==
  \/ PackBody(p)
  \/ PackTail(p)
  \/ PackHead(p)
  \/ PackNeck(p)
  \/ PackReturn(p)
  \/ Transmit(p)
  \/ ParseStart(p)
  \/ ParseHead(p)
  \/ ParseNeck(p)
  \/ VouchHead(p)
  \/ ParseBody(p)
  \/ ParseTail(p)
  \/ VerifyBody(p)

Next == Step(1)

Spec == Init /\ [][Next]_vars

(***************************************************************************)
(* Two calls on two packets, their stages interleaved                      *)
(***************************************************************************)
\* the calls paired: packPacket on a plain packet, on one whose header is
\* too long, on one of an unimplemented neck kind and on one whose head
\* lacks a field; parsePacket on an unrecognizable buffer, on a well-formed
\* packet followed by two more characters, and on a header without hl
ConcurrentCalls ==
  {[op |-> "pack",
    data |-> [meta |-> m, head |-> h, neck |-> EmptyDict,
              body |-> [data |-> MapA], tail |-> EmptyDict,
              pack |-> EmptyStr]] :
     m \in {BaseMeta}, h \in {HeadOf(headKinds.json, NoneV, {}),
                              HeadOf(headKinds.json, StrV(Pad(MaxPad)), {}),
                              Without(HeadOf(headKinds.json, NoneV, {}), "af")}}
  \cup
  {[op |-> "pack",
    data |-> [meta |-> Put(BaseMeta, "nk", neckKinds.sodium),
              head |-> HeadOf(headKinds.json, NoneV, {"vn"}),
              neck |-> EmptyDict, body |-> [data |-> MapAB],
              tail |-> EmptyDict, pack |-> EmptyStr]]}
  \cup
  {[op |-> "parse", data |-> [defaultData(StrV(buf)) EXCEPT !.meta = m]] :
     m \in ReceiverMetas,
     buf \in {<<"x", "y">>,
              Frame(MandatoryRest \o << <<"bk", IntV(1)>>, <<"bl", IntV(7)>> >>,
                    "true") \o Dumps(MapA) \o <<"x", "y">>,
              Frame(MandatoryRest, "omitted")}}

InitConcurrent ==
  \E a \in ConcurrentCalls, b \in ConcurrentCalls : Start(<<a, b>>)

\* a stage of either call runs next
NextConcurrent == Step(1) \/ Step(2)

SpecConcurrent == InitConcurrent /\ [][NextConcurrent]_vars

(***************************************************************************)
(* What the calls are observed to do                                       *)
(***************************************************************************)
Packets == DOMAIN pc

\* the calls of fn made so far by the call on packet p
CallsOf(p, fn) == {i \in DOMAIN trace[p] : trace[p][i].fn = fn}
Ran(p, fn) == CallsOf(p, fn) # {}
\* fn ran and failed (a stage) or returned false (a hook)
Failed(p, fn) == \E i \in CallsOf(p, fn) : trace[p][i].failed

ParseStages == {"parseHead", "parseNeck", "parseBody", "parseTail"}
Hooks == {"vouchHead", "verifyBody"}
HooksAccepted(p) ==
  \A i \in DOMAIN trace[p] : trace[p][i].fn \in Hooks => ~trace[p][i].failed

\* the call in progress on p is packPacket / parsePacket
Packing(p) == Ran(p, "packBody")
Parsing(p) == Ran(p, "parseHead")
\* parsePacket has returned, or an exception has left it
ParseEnded(p) == Parsing(p) /\ pc[p] \in {"parsed", "raised"}
\* parsePacket was given what packPacket returned
RoundTrip(p) == sent[p] # NotSent

(***************************************************************************)
(* C1  round trip                                                          *)
(***************************************************************************)
\* the implemented kind subset, of a packet as given to packPacket
Implemented(d) ==
  /\ Get(d.head, "hk", NoneV) = headKinds.json
  /\ Get(d.meta, "nk", NoneV) = neckKinds.nada
  /\ Get(d.meta, "tk", NoneV) = tailKinds.nada
  /\ Get(d.meta, "bk", NoneV) = bodyKinds.json
  /\ Get(d.body, "data", NoneV).t = "map"

BodyReproduced(p) ==
  Get(data[p].body, "data", NoneV) = sent[p].was.body["data"]

HeadReproduced(p, fields) ==
  \A k \in fields :
     Get(data[p].head, k, Unset) = Get(sent[p].now.head, k, NoneV)

Fresh(d) ==
  /\ Get(d.meta, "nl", NoneV) = PairValue(META_DEFAULTS, "nl")
  /\ ~Truthy(Get(d.body, "raw", EmptyStr))

C2_NoFault == \A p \in Packets : pc[p] # "raised" /\ exc[p] = ""

(***************************************************************************)
(* C3  unrecognizable header                                               *)
(***************************************************************************)
\* the buffer fails the test of line 350
Unrecognized(p) == ~Recognized(pre[p].pack.s)

AfterHead == {"parseNeck", "vouchHead", "parseBody", "parseTail", "verifyBody"}

\* C3: when parsePacket is given a buffer without the leading marker or
\* without the end marker, then at return meta.error is non-empty, meta hk
\* is unknown, meta hl is 0, no stage after head has run, neck, body and
\* tail are as they were, and the meta kind and length fields of neck, body
\* and tail are as parsePacket's defaulting left them.
C3_UnrecognizedStops ==
  \A p \in Packets :
     (ParseEnded(p) /\ Unrecognized(p))
     => /\ pc[p] = "parsed"
        /\ Error(data[p]) # EmptyStr
        /\ data[p].meta["hk"] = headKinds.unknown
        /\ data[p].meta["hl"] = IntV(0)
        /\ \A fn \in AfterHead : ~Ran(p, fn)
        /\ data[p].neck = pre[p].neck
        /\ data[p].body = pre[p].body
        /\ data[p].tail = pre[p].tail
        /\ \A k \in {"nk", "nl", "bk", "bl", "tk", "tl"} :
              data[p].meta[k] = updateMissing(pre[p].meta, META_DEFAULTS)[k]

(***************************************************************************)
(* C4  stage failures visible at return                                    *)
(***************************************************************************)
\* C4: whenever a stage of one parsePacket call detects a failure,
\* meta.error is non-empty when parsePacket returns.
C4_FailuresVisible ==
  \A p \in Packets :
     (pc[p] = "parsed" /\ \E fn \in ParseStages : Failed(p, fn))
     => Error(data[p]) # EmptyStr

(***************************************************************************)
(* C5  header too long                                                     *)
(***************************************************************************)
\* C5: when packHead finds the serialized header longer than MAX_HEAD_LEN,
\* packPacket returns an empty value, leaves data.pack empty, and leaves
\* meta.error non-empty.
C5_NoPartialPacket ==
  \A p \in Packets :
     (pc[p] = "packed" /\ Failed(p, "packHead"))
     => /\ ret[p] = EmptyStr
        /\ data[p].pack = EmptyStr
        /\ Error(data[p]) # EmptyStr

(***************************************************************************)
(* C6  length self-consistency after pack                                  *)
(***************************************************************************)
LenField == [head |-> "hl", neck |-> "nl", body |-> "bl", tail |-> "tl"]

\* C6: for every packet on which packPacket returns, meta hl, nl, bl and tl
\* are the lengths of head.pack, neck.pack, body.pack and tail.pack.
C6_LengthsConsistent ==
  \A p \in Packets :
     pc[p] = "packed"
     => \A part \in DOMAIN LenField :
           Get(data[p].meta, LenField[part], NoneV)
             = IntV(PackLen(data[p][part]))

(***************************************************************************)
(* C7  rejection short-circuit                                             *)
(***************************************************************************)
\* C7: whatever the hooks answer, if vouchHead returns false then
\* parsePacket returns None, parseBody and parseTail do not run and body and
\* tail are as before the call; if verifyBody returns false then parsePacket
\* returns None; a remainder is returned only when both hooks returned true.
C7_RejectionShortCircuit ==
  \A p \in Packets :
     /\ Failed(p, "vouchHead")
        => /\ pc[p] = "parsed"
           /\ ret[p] = NoneV
           /\ ~Ran(p, "parseBody") /\ ~Ran(p, "parseTail")
           /\ ~Ran(p, "verifyBody")
           /\ data[p].body = pre[p].body
           /\ data[p].tail = pre[p].tail
     /\ Failed(p, "verifyBody") => pc[p] = "parsed" /\ ret[p] = NoneV
     /\ (Parsing(p) /\ ret[p].t = "str")
        => /\ Ran(p, "vouchHead") /\ Ran(p, "verifyBody")
           /\ HooksAccepted(p)

\* vouchHead has rejected a packet whose header was recognized and declares
\* a body of seven characters, which are still in the buffer
C7_VouchRejected ==
  \E p \in Packets :
     /\ Failed(p, "vouchHead")
     /\ ~Unrecognized(p)
     /\ data[p].meta["bl"] = IntV(7)
     /\ Len(rest[p]) >= 7

(***************************************************************************)
(* C8  unknown body kind                                                   *)
(***************************************************************************)
\* the header was recognized and decoded, and declares a body kind that is
\* neither json nor nada
DeclaresUnknownBody(p) ==
  /\ ~Unrecognized(p)
  /\ Has(data[p].head, "bk")
  /\ data[p].head["bk"] \notin {bodyKinds.nada, bodyKinds.json}

\* C8: parsing a packet with a recognizable header whose declared body kind
\* is neither json nor nada ends without raising and, when parsePacket
\* returns, meta bk is unknown, meta bl is 0 and meta.error is non-empty.
C8_UnknownBodyDegrades ==
  \A p \in Packets :
     (ParseEnded(p) /\ HooksAccepted(p) /\ DeclaresUnknownBody(p))
     => /\ pc[p] = "parsed"
        /\ data[p].meta["bk"] = bodyKinds.unknown
        /\ data[p].meta["bl"] = IntV(0)
        /\ Error(data[p]) # EmptyStr

(***************************************************************************)
(* C9  elision                                                             *)
(***************************************************************************)
\* packHead has encoded the head of p (packPacket is still on p)
Encoded(p) ==
  /\ Packing(p) /\ Ran(p, "packHead") /\ pc[p] # "raised"
  /\ data[p].head["pack"] # EmptyStr

\* the header without its end marker, decoded
Decoded(p) ==
  Loads(Take(data[p].head["pack"].s,
             Len(data[p].head["pack"].s) - Len(JSON_END)))

MandatoryFields ==
  {k \in PairKeys(HEAD_DEFAULTS) : PairValue(HEAD_DEFAULTS, k) = NoneV}

\* C9: for every head that packHead encodes, the keys of the emitted header
\* are exactly the mandatory fields hk, hl, sd, dd, sk, pk, whatever their
\* values, together with every other field of HEAD_DEFAULTS whose value in
\* the head after the sync from meta differs from its default.
C9_ElisionCorrect ==
  \A p \in Packets :
     Encoded(p)
     => /\ MandatoryFields = {"hk", "hl", "sd", "dd", "sk", "pk"}
        /\ Decoded(p).exc = ""
        /\ Decoded(p).v.t = "map"
        /\ PairKeys(Decoded(p).v.m)
             = MandatoryFields
                 \cup {k \in PairKeys(HEAD_DEFAULTS) :
                         data[p].head[k] # PairValue(HEAD_DEFAULTS, k)}

\* a head was encoded whose sd is None (mandatory, emitted all the same),
\* whose vn differs from its default (emitted) and whose sc equals its
\* default (elided)
C9_Elided ==
  \E p \in Packets :
     /\ Encoded(p)
     /\ data[p].head["sd"] = NoneV
     /\ data[p].head["vn"] = NonDefault.vn
     /\ data[p].head["sc"] = PairValue(HEAD_DEFAULTS, "sc")
     /\ {"sd", "vn"} \subseteq PairKeys(Decoded(p).v.m)
     /\ "sc" \notin PairKeys(Decoded(p).v.m)

(***************************************************************************)
(* C10  the length patch                                                   *)
(***************************************************************************)
\* the header of p as serialized with the placeholder, before the patch
Unpatched(p) == HeadText(HeadKit(data[p].head, HEAD_DEFAULTS, <<>>).kit)

\* where the two digits of the header's own hl field stand: hk comes first,
\* hl second
OwnHlDigits == {Len(HeadMarker) + 7, Len(HeadMarker) + 8}

\* parseHead on the header, for a receiver that starts from the defaults
Reparsed(p) ==
  parseHead(data[p].head["pack"].s, DictOf(META_DEFAULTS), EmptyDict)

\* hl as read back from the decoded header kit: a two-digit hexadecimal
\* string whose value is n
ReadsBack(kit, n) ==
  /\ kit.exc = ""
  /\ kit.v.t = "map"
  /\ "hl" \in PairKeys(kit.v.m)
  /\ PairValue(kit.v.m, "hl").t = "str"
  /\ Len(PairValue(kit.v.m, "hl").s) = 2
  /\ IsHexText(PairValue(kit.v.m, "hl").s)
  /\ HexValue(PairValue(kit.v.m, "hl").s) = n

\* a and b have the same length and differ at most at the positions in at
SameBut(a, b, at) ==
  /\ Len(a) = Len(b)
  /\ \A i \in 1..Len(a) : a[i] # b[i] => i \in at

\* r, the outcome of parseHead, reports no error and a header of n characters
NoMismatch(r, n) ==
  /\ r.exc = ""
  /\ r.meta["error"] = EmptyStr
  /\ r.meta["hl"] = IntV(n)

\* C10: for every header that packHead finalizes, the hl field read back
\* from head.pack is a two-digit hexadecimal string whose value is
\* len(head.pack); the patched header has the length of the unpatched one
\* and differs from it only in the digits of the header's own hl field; and
\* parseHead on those bytes reports no length mismatch.
C10_LengthPatchCorrect ==
  \A p \in Packets :
     Encoded(p)
     => /\ ReadsBack(Decoded(p), PackLen(data[p].head))
        /\ SameBut(data[p].head["pack"].s, Unpatched(p), OwnHlDigits)
        /\ NoMismatch(Reparsed(p), PackLen(data[p].head))

\* a header was finalized whose device id holds the placeholder text and
\* the end marker
C10_Patched ==
  \E p \in Packets :
     /\ Encoded(p) /\ pc[p] = "packed"
     /\ data[p].head["sd"] = StrV(TrickyText)
     /\ data[p].head["pack"].s # Unpatched(p)

(***************************************************************************)
(* C11  the boundary at MAX_HEAD_LEN                                       *)
(***************************************************************************)
\* packHead has run on a head of kind json and has not raised
HeadTried(p) ==
  /\ Packing(p) /\ Ran(p, "packHead") /\ pc[p] # "raised"
  /\ Get(data[p].head, "hk", NoneV) = headKinds.json

\* what packHead left when it accepted a header of n characters
Accepted(p, n) ==
  /\ PackLen(data[p].head) = n
  /\ data[p].meta["hl"] = IntV(n)
  /\ Error(data[p]) = EmptyStr

\* what packHead left when it refused the header
Refused(p) ==
  /\ Error(data[p]) # EmptyStr
  /\ data[p].meta["hl"] = IntV(0)
  /\ data[p].head["pack"] = EmptyStr

\* C11: in packHead a header whose serialized form, end marker included, is
\* exactly 255 characters is accepted (head.pack of length 255, meta hl 255,
\* meta.error empty), and a header of 256 characters or more leaves
\* meta.error non-empty, meta hl 0 and head.pack empty.
C11_MaxLengthBoundary ==
  \A p \in Packets :
     (HeadTried(p) /\ pc[p] = "packNeck")
     => /\ Len(Unpatched(p)) = 255 => Accepted(p, 255)
        /\ Len(Unpatched(p)) >= 256 => Refused(p)
        /\ Len(Unpatched(p)) < 255 => Accepted(p, Len(Unpatched(p)))

\* packHead has just accepted a header of exactly MAX_HEAD_LEN characters
C11_AtMax ==
  \E p \in Packets :
     /\ HeadTried(p) /\ pc[p] = "packNeck"
     /\ Len(Unpatched(p)) = MAX_HEAD_LEN
     /\ Accepted(p, MAX_HEAD_LEN)

(***************************************************************************)
(* C12  kinds without an implementation                                    *)
(***************************************************************************)
\* for neck, body and tail: the steps that pack and parse the part, its kind
\* and length fields in meta, and the codes of its declared kinds other than
\* the implemented one
PartStages ==
  [neck |-> {"packNeck", "parseNeck"}, body |-> {"packBody", "parseBody"},
   tail |-> {"packTail", "parseTail"}]
KindField == [neck |-> "nk", body |-> "bk", tail |-> "tk"]
Unimplemented ==
  [neck |-> {KindCode(NECK_KINDS, n) :
               n \in {"sodium", "sha2", "crc64", "unknown"}},
   body |-> {KindCode(BODY_KINDS, n) : n \in {"binary", "unknown"}},
   tail |-> {KindCode(TAIL_KINDS, n) : n \in {"crc16", "crc64", "unknown"}}]

\* the stage of part about to run on p finds a kind without implementation
MeetsUnimplemented(p, part) ==
  /\ pc[p] \in PartStages[part]
  /\ Get(data[p].meta, KindField[part], NoneV).t = "int"
  /\ Get(data[p].meta, KindField[part], NoneV).n \in Unimplemented[part]

JustParsed == [neck |-> "vouchHead", body |-> "parseTail", tail |-> "verifyBody"]

\* C13: immediately after each of parseNeck, parseBody and parseTail
\* returns, the meta length of that part equals the length of the part's
\* pack field.
C13_ParsedLengths ==
  \A p \in Packets : \A part \in DOMAIN JustParsed :
     (Parsing(p) /\ pc[p] = JustParsed[part])
     => Get(data[p].meta, LenField[part], NoneV)
          = IntV(PackLen(data[p][part]))

(***************************************************************************)
(* C14  meta and head after the header is decoded                          *)
(***************************************************************************)
\* parseHead has recognized the header of p and decoded it without raising
HeaderDecoded(p) ==
  /\ Parsing(p) /\ ~Unrecognized(p)
  /\ pc[p] = "raised" => Len(trace[p]) > 1

ParseStage == [neck |-> "parseNeck", body |-> "parseBody", tail |-> "parseTail"]

Mirrors(p, f) == data[p].meta[f] = data[p].head[f]

\* C14, as the specification states it: from the point where parseHead has
\* recognized and decoded a header until parsePacket returns, meta[f] =
\* head[f] for each f in nl, bl, tl, nk, bk, tk.
C14_MetaMirrorsHead ==
  \A p \in Packets :
     HeaderDecoded(p)
     => \A f \in {"nl", "bl", "tl", "nk", "bk", "tk"} : Mirrors(p, f)

\* C14, amended: from the point where parseHead has recognized and decoded
\* a header until parsePacket returns, the meta kind and length of each of
\* neck, body and tail equal the head's, until the parse stage of that part
\* finds the kind unrecognized; from then on the part's meta kind is unknown
\* and its meta length 0, while head keeps the declared values.
C14_MetaMirrorsUntilUnknown ==
  \A p \in Packets :
     HeaderDecoded(p)
     => \A part \in DOMAIN ParseStage :
           IF Failed(p, ParseStage[part])
           THEN /\ data[p].meta[KindField[part]] = IntV(KindUnknown)
                /\ data[p].meta[LenField[part]] = IntV(0)
           ELSE /\ Mirrors(p, KindField[part])
                /\ Mirrors(p, LenField[part])

\* parsePacket has returned on a header that declared a neck of kind sodium
\* and length 2: meta now says unknown and 0 for the neck, head still says
\* sodium and 2, and the body fields of meta still equal the head's
C14_NeckForcedUnknown ==
  \E p \in Packets :
     /\ HeaderDecoded(p) /\ pc[p] = "parsed"
     /\ Failed(p, "parseNeck")
     /\ data[p].head["nk"] = neckKinds.sodium
     /\ data[p].head["nl"] = IntV(2)
     /\ data[p].meta["nk"] = neckKinds.unknown
     /\ data[p].meta["nl"] = IntV(0)
     /\ ~Failed(p, "parseBody")
     /\ Mirrors(p, "bk") /\ Mirrors(p, "bl")

(***************************************************************************)
(* C15  calls on distinct packets                                          *)
(***************************************************************************)
\* lines 232-248: packPacket run alone on packet d, start to end: the
\* packet it leaves, what it returns, and the exception that leaves it
packPacket(d) ==
  LET b == packBody(d.meta, d.body)
      t == packTail(b.meta, b.part, d.tail)
      h == packHead(t.meta, d.head)
      n == packNeck(h.meta, h.part, d.neck)
      parts == [d EXCEPT !.meta = n.meta, !.body = b.part, !.tail = t.part,
                         !.head = h.part, !.neck = n.part]
  IN IF h.exc # ""
     THEN [data |-> [d EXCEPT !.meta = h.meta, !.body = b.part,
                              !.tail = t.part, !.head = h.part],
           ret |-> Unset, exc |-> h.exc]
     ELSE [data |-> [parts EXCEPT !.pack = JoinParts(parts)],
           ret |-> JoinParts(parts), exc |-> ""]

\* lines 316-340: parsePacket run alone on packet d, start to end, with the
\* verdicts the two hooks give
parsePacket(d, vouch, verify) ==
  LET m == Put(updateMissing(d.meta, META_DEFAULTS), "error", EmptyStr)
      h == parseHead(d.pack.s, m, d.head)
      n == parseNeck(h.pack, h.meta, d.neck)
      b == parseBody(n.pack, n.meta, d.body)
      t == parseTail(b.pack, b.meta, d.tail)
      Left(meta, done, r, e) ==
        [data |-> [d EXCEPT !.meta = meta,
                            !.head = IF done >= 1 THEN h.part ELSE @,
                            !.neck = IF done >= 2 THEN n.part ELSE @,
                            !.body = IF done >= 3 THEN b.part ELSE @,
                            !.tail = IF done >= 4 THEN t.part ELSE @],
         ret |-> r, exc |-> e]
  IN CASE h.exc # "" -> Left(h.meta, 1, Unset, h.exc)
       [] n.exc # "" -> Left(n.meta, 2, Unset, n.exc)
       [] ~vouch -> Left(n.meta, 2, NoneV, "")
       [] b.exc # "" -> Left(b.meta, 3, Unset, b.exc)
       [] t.exc # "" -> Left(t.meta, 4, Unset, t.exc)
       [] OTHER -> Left(t.meta, 4, VerifyReturn(verify, t.pack), "")

\* what the call on p has left
Outcome(p) == [data |-> data[p], ret |-> ret[p], exc |-> exc[p]]

PackEnded(p) == Packing(p) /\ pc[p] \in {"packed", "raised"}

\* C15: when two pack or parse calls run on two distinct packets with their
\* stages interleaved in any order, each packet ends in the state, and each
\* call returns the value, that the call gives when it runs alone, and the
\* kind registries and default tables are as they were.
C15_CallsIndependent ==
  /\ tables = Tables
  /\ \A p \in Packets :
        /\ PackEnded(p) => Outcome(p) = packPacket(pre[p])
        /\ ParseEnded(p)
           => Outcome(p) = parsePacket(pre[p], ~Failed(p, "vouchHead"),
                                       ~Failed(p, "verifyBody"))

\* two calls have both ended, a packPacket on one packet and a parsePacket
\* that returned a remainder on another, their stages having been free to
\* interleave
C15_BothEnded ==
  /\ DOMAIN pc = {1, 2}
  /\ PackEnded(1) /\ pc[1] = "packed" /\ data[1].meta["nk"] = neckKinds.sodium
  /\ ParseEnded(2) /\ ~RoundTrip(2) /\ ret[2] = StrV(<<"x", "y">>)
  /\ data[2].meta["nk"] = neckKinds.nada
  /\ "data" \in DOMAIN data[2].body /\ data[2].body["data"] = MapA

(***************************************************************************)
(* C16  the header describes the segments                                  *)
(***************************************************************************)
\* the value the decoded header kit carries for field k: the emitted value,
\* or the default of HEAD_DEFAULTS when the field is elided
Carried(kit, k) ==
  IF k \in PairKeys(kit) THEN PairValue(kit, k)
  ELSE PairValue(HEAD_DEFAULTS, k)

Describes(kit, d) ==
  \A part \in {"neck", "body", "tail"} :
     Carried(kit, LenField[part]) = IntV(PackLen(d[part]))

\* C16: after any packPacket call that finalizes a header (head.pack is not
\* empty), the nl, bl and tl carried by the header equal the lengths of
\* neck.pack, body.pack and tail.pack of the same packet, whatever the
\* initial meta.
C16_HeaderDescribesSegments ==
  \A p \in Packets :
     (PackEnded(p) /\ pc[p] = "packed" /\ data[p].head["pack"] # EmptyStr)
     => Describes(Decoded(p).v.m, data[p])

(***************************************************************************)
(* C17  what the checkpoints are evaluated on                              *)
(***************************************************************************)
\* the dicts of packet p that call c was handed, in the order of its
\* parameters
Handed(p, c) == [i \in DOMAIN c.args |-> data[p][c.args[i]]]

\* the last stage that ran on p before its i-th call
StageBefore(p, i) == trace[p][i - 1].fn

\* C17: in parsePacket the integrity predicate is evaluated, after the tail
\* stage, on meta, the parsed body and the parsed tail, and the
\* authentication predicate is evaluated, after the neck stage, on meta, the
\* parsed head and the parsed neck.
C17_CheckpointArguments ==
  \A p \in Packets :
     /\ \A i \in CallsOf(p, "verifyBody") :
           /\ StageBefore(p, i) = "parseTail"
           /\ Handed(p, trace[p][i])
                = <<data[p].meta, data[p].body, data[p].tail>>
     /\ \A i \in CallsOf(p, "vouchHead") :
           /\ StageBefore(p, i) = "parseNeck"
           /\ Handed(p, trace[p][i])
                = <<data[p].meta, data[p].head, data[p].neck>>

(***************************************************************************)
(* C18  meta.error across a stage                                          *)
(***************************************************************************)
Stages ==
  {"packBody", "packTail", "packHead", "packNeck"} \cup ParseStages

\* meta as stage fn leaves it when it is run on packet d and buffer buf
MetaAfter(fn, d, buf) ==
  CASE fn = "packBody" -> packBody(d.meta, d.body).meta
    [] fn = "packTail" -> packTail(d.meta, d.body, d.tail).meta
    [] fn = "packHead" -> packHead(d.meta, d.head).meta
    [] fn = "packNeck" -> packNeck(d.meta, d.head, d.neck).meta
    [] fn = "parseHead" -> parseHead(buf, d.meta, d.head).meta
    [] fn = "parseNeck" -> parseNeck(buf, d.meta, d.neck).meta
    [] fn = "parseBody" -> parseBody(buf, d.meta, d.body).meta
    [] fn = "parseTail" -> parseTail(buf, d.meta, d.tail).meta

\* the error, if any, that stage fn itself reports on packet d: the one it
\* leaves when meta.error is empty on entry
OwnError(fn, d, buf) ==
  Get(MetaAfter(fn, [d EXCEPT !.meta = Put(@, "error", EmptyStr)], buf),
      "error", EmptyStr)

\* C18: each of the eight stages packBody, packTail, packHead, packNeck,
\* parseHead, parseNeck, parseBody and parseTail clears meta.error on entry:
\* the meta.error seen after a stage is the one the stage itself reported,
\* empty if it did not fail, whatever meta.error was before the stage.
C18_ErrorResetEveryStage ==
  [][\A p \in Packets : \A fn \in Stages :
       (pc[p] = fn /\ pc'[p] # fn)
       => Get(data'[p].meta, "error", EmptyStr)
            = OwnError(fn, data[p], rest[p])]_vars

(***************************************************************************)
(* C19  framing conservation on parse                                      *)
(***************************************************************************)
\* the four segments of d in wire order, then what was left over
Reassembled(d, remainder) ==
  d.head["pack"].s \o d.neck["pack"].s \o d.body["pack"].s
    \o d.tail["pack"].s \o remainder

\* C19: for every buffer whose header is recognized, whenever parsePacket
\* returns a remainder, head.pack followed by neck.pack, body.pack,
\* tail.pack and the remainder is the input buffer exactly.
C19_FramingConserved ==
  \A p \in Packets :
     (ParseEnded(p) /\ Recognized(pre[p].pack.s) /\ ret[p].t = "str")
     => Reassembled(data[p], ret[p].s) = pre[p].pack.s

(***************************************************************************)
(* C20  the kind registries and their inverse maps                         *)
(***************************************************************************)
KindRegistries ==
  {"HEAD_KINDS", "NECK_KINDS", "BODY_KINDS", "TAIL_KINDS", "SERVICE_KINDS",
   "PACKET_KINDS"}

\* every name of the registry comes back from its code through the inverse
Invertible(reg) ==
  \A i \in DOMAIN reg : KIND_NAMES(reg)[reg[i][2]] = reg[i][1]

\* C20: in each of the six kind registries distinct names have distinct
\* codes, so that a name looked up to its code and the code looked up in
\* the inverse map gives the same name, for every declared name.
C20_RegistriesInvertible ==
  \A r \in KindRegistries : Invertible(tables[r])

====
